---- MODULE Spec2Model ----
(***************************************************************************)
(* Warehouse simulation: the first-fit slot allocator and the weight gate  *)
(* of src/src/warehouse.py, and the session script of src/src/app.py       *)
(* ("Generate Pallets", "Run Simulation" with its tick loop, and the       *)
(* pallet_movements log).                                                  *)
(*                                                                         *)
(* Weights are kept in tenths of a kilogram (app.py:94 rounds to one       *)
(* decimal), so 400 kg is 4000 and a tolerance of 25 kg is 250.            *)
(* A coordinate is the tuple <<r, c, l>>; Python's None is <<>>.           *)
(* The location text f"Row {r+1}, Col {c+1}, Layer {l+1}" is kept as the   *)
(* tuple of its three numbers, and "" as <<>>.                             *)
(* pallet_positions is keyed by the pallet's place in the list: the ids    *)
(* P1..Pn are distinct and the dict keeps insertion order.                 *)
(* Rendering (draw_grid, streamlit), time.sleep and read-only update_kpi   *)
(* change no state and are left out; the row's timestamp is not kept.      *)
(***************************************************************************)
EXTENDS Integers, Sequences, FiniteSets, TLC

VARIABLES
    capacity,    \* Warehouse.capacity: [rows, columns, layers]
    tolerance,   \* TOLERANCE / Warehouse.tolerance, in tenths of a kg
    occupied,    \* Warehouse.occupied: set of coordinates
    pallets,     \* st.session_state.pallets: sequence of Pallet objects
    pos,         \* pallet_positions of the running script
    pc,          \* "idle" | "loop" | "done" | "failed": where the script is
    cursor,      \* index of the pallet the for loop visits next
    finished,    \* the while loop's flag
    log,         \* table pallet_movements, in id order
    cmds,        \* commands issued in the session so far
    returned,    \* history: coordinates assign_location has returned
    lastRet,     \* history: the last return value of assign_location
    calls,       \* history: number of assign_location calls
    logBase,     \* history: length of the log when the current run began
    occBase,     \* history: |occupied| when the current run began
    accepted,    \* history: the return values of check_weight, in call order
    hpc,         \* per script run (handler): where it is in insert_movement_log
    lockOf,      \* per script run: the Lock object its db_lock names
    held,        \* the Lock objects that are held
    pending,     \* rows INSERTed on the shared connection, not yet committed
    result,      \* the rows the last search / listing / export returned
    genBase      \* history: length of the log at the last "Generate Pallets"

dbVars == <<hpc, lockOf, held, pending>>

vars == <<capacity, tolerance, occupied, pallets, pos, pc, cursor, finished,
          log, cmds, returned, lastRet, calls, logBase, occBase, accepted,
          hpc, lockOf, held, pending, result, genBase>>

----------------------------------------------------------------------------
\* Program constants

CONVEYOR_SLOTS == 3
RGV_SLOTS == 3
RECENT_LIMIT == 200
ROWS == 3
COLS == 3
LAYERS == 2
TOLERANCE == 25
NOMINAL == 400
Scale == 10

\* Bounds of the model

MaxDim == 3          \* allocator runs: rows, columns, layers each in 1..MaxDim
MaxPallets == 2      \* num_pallets of a "Generate Pallets" command
MaxCmds == 3         \* commands (Generate / Run) in one session
MaxDeviation == 30   \* gate runs: weights within 400 +- MaxDeviation kg
NumHandlers == 2     \* concurrent script runs on the shared connection
MaxInserts == 2      \* insert_movement_log calls of one script run
MaxGateCalls == 2    \* check_weight calls on the pallet of a gate run

None == <<>>

Handlers == 1..NumHandlers

\* nothing has been searched, listed or exported in this script run
NoResult == [kind |-> "none", arg |-> None, rows |-> << >>]

\* no script run is under way, nothing is pending, nothing was queried
DbInit ==
    /\ hpc = [h \in Handlers |-> "off"]
    /\ lockOf = [h \in Handlers |-> 0]
    /\ held = {}
    /\ pending = << >>
    /\ result = NoResult
    /\ genBase = 0

\* Inputs of the session runs
Capacities ==
    { [rows |-> 1, columns |-> 1, layers |-> 1],
      [rows |-> 1, columns |-> 2, layers |-> 1],
      [rows |-> 2, columns |-> 1, layers |-> 2],
      [rows |-> ROWS, columns |-> COLS, layers |-> LAYERS] }
Weights == { (NOMINAL + TOLERANCE) * Scale, (NOMINAL + TOLERANCE) * Scale + 1 }
RFIDs == { 10000, 10001 }
SearchRFIDs == RFIDs \cup { 10002 }
GateWeights ==
    ((NOMINAL - MaxDeviation) * Scale) .. ((NOMINAL + MaxDeviation) * Scale)
GateTolerances == { 0, 5 * Scale, TOLERANCE * Scale }

----------------------------------------------------------------------------
\* Warehouse (warehouse.py)

Abs(x) == IF x < 0 THEN -x ELSE x

Slots(cap) == cap.rows * cap.columns * cap.layers

\* The coordinates the loops of assign_location range over
Grid(cap) ==
    { <<r, c, l>> : r \in 1..cap.rows, c \in 1..cap.columns, l \in 1..cap.layers }

\* (mutant) the loops nested the other way round: layer outermost
ScanOrderLayerMajor(cap) ==
    [i \in 1..Slots(cap) |->
        << (((i - 1) \div cap.columns) % cap.rows) + 1,
           ((i - 1) % cap.columns) + 1,
           ((i - 1) \div (cap.rows * cap.columns)) + 1 >>]

\* The coordinates in the order the nested loops of assign_location visit
\* them: r outermost, then c, then l innermost, each from 1.
ScanOrder(cap) ==
    [i \in 1..Slots(cap) |->
        << ((i - 1) \div (cap.columns * cap.layers)) + 1,
           (((i - 1) \div cap.layers) % cap.columns) + 1,
           ((i - 1) % cap.layers) + 1 >>]

\* (mutant) the scan stops one coordinate short
FirstFreeShort(occ, cap) ==
    LET order == ScanOrder(cap)
        free == { i \in 1..(Slots(cap) - 1) : order[i] \notin occ }
    IN IF free = {} THEN None
       ELSE order[CHOOSE i \in free : \A j \in free : i <= j]

\* The return value of assign_location: the first scanned coordinate that
\* is not occupied, None when the loops run out.
FirstFree(occ, cap) ==
    LET order == ScanOrder(cap)
        free == { i \in 1..Slots(cap) : order[i] \notin occ }
    IN IF free = {} THEN None
       ELSE order[CHOOSE i \in free : \A j \in free : i <= j]

\* (mutant) the coordinate is returned but never marked
OccupyForgotten(occ, loc) == occ

\* self.occupied.add(pos) on a hit, nothing on None
Occupy(occ, loc) == IF loc = None THEN occ ELSE occ \cup {loc}

\* check_weight's return value
check_weight(w, tol) == Abs(w - NOMINAL * Scale) <= tol

\* (mutant) the verdict is written with the short labels
check_weight_status_short(w, tol) ==
    IF Abs(w - NOMINAL * Scale) <= tol THEN "Accepted" ELSE "Rejected"

\* check_weight's assignment to pallet.status
check_weight_status(w, tol) ==
    IF check_weight(w, tol) THEN "Accepted" ELSE "Rejected - Manual Packing"

\* One call of assign_location on the session's warehouse
assign_location ==
    LET loc == FirstFree(occupied, capacity)
    IN /\ occupied' = Occupy(occupied, loc)
       /\ lastRet' = loc
       /\ returned' = IF loc = None THEN returned ELSE Append(returned, loc)
       /\ calls' = calls + 1

----------------------------------------------------------------------------
\* Session script (app.py)

Pallet(i, w, r) ==
    [pallet_id |-> <<"P", i>>, weight |-> w, rfid |-> r,
     status |-> "Pending", location |-> None]

InitialPosition == [stage |-> "inbound", index |-> 0, loc |-> None]

\* (mutant) the boundary weight is refused
InlineRejectStrict(w, tol) == Abs(w - NOMINAL * Scale) >= tol

\* the inline gate of the inbound branch: TRUE when the pallet is refused
InlineReject(w, tol) == Abs(w - NOMINAL * Scale) > tol

IsTerminal(stage) == stage \in {"asrs", "manual"}

FormatLocation(loc) == << loc[1] + 1, loc[2] + 1, loc[3] + 1 >>

\* (mutant) the id is taken from the row count and the row replaces the
\* one that has it
insert_or_replace(tbl, p, stage, location) ==
    LET row == [id |-> Len(tbl), pallet_id |-> p.pallet_id,
                rfid |-> p.rfid, weight |-> p.weight,
                stage |-> stage, location |-> location]
    IN IF tbl = << >> THEN << row >> ELSE [tbl EXCEPT ![Len(tbl)] = row]

\* the table after insert_movement_log: one row appended, id autoincrement
insert_movement_log(tbl, p, stage, location) ==
    Append(tbl, [id |-> Len(tbl) + 1, pallet_id |-> p.pallet_id,
                 rfid |-> p.rfid, weight |-> p.weight,
                 stage |-> stage, location |-> location])

Init ==
    /\ capacity \in Capacities
    /\ tolerance = TOLERANCE * Scale
    /\ occupied = {}
    /\ pallets = << >>
    /\ pos = << >>
    /\ pc = "idle"
    /\ cursor = 0
    /\ finished = FALSE
    /\ log = << >>
    /\ cmds = 0
    /\ returned = << >>
    /\ lastRet = None
    /\ calls = 0
    /\ logBase = 0
    /\ occBase = 0
    /\ accepted = << >>
    /\ DbInit

allocVars == <<occupied, returned, lastRet, calls>>

\* "Generate Pallets": a fresh list of num_pallets pallets
GeneratePallets ==
    /\ pc \in {"idle", "done", "failed"}
    /\ cmds < MaxCmds
    /\ \E n \in 1..MaxPallets :
         \E ws \in [1..n -> Weights], rs \in [1..n -> RFIDs] :
            pallets' = [i \in 1..n |-> Pallet(i, ws[i], rs[i])]
    /\ pos' = << >>
    /\ pc' = "idle"
    /\ cmds' = cmds + 1
    /\ result' = NoResult
    /\ genBase' = Len(log)
    /\ UNCHANGED <<dbVars, capacity, tolerance, allocVars, cursor, finished,
                   log, logBase, occBase, accepted>>

\* "Run Simulation" up to the first pass of the while test
RunSimulation ==
    /\ pc \in {"idle", "done", "failed"}
    /\ cmds < MaxCmds
    /\ cmds' = cmds + 1
    /\ IF pallets = << >>
       THEN /\ pc' = "idle"
            /\ pos' = << >>
            /\ UNCHANGED <<cursor, finished, logBase, occBase>>
       ELSE /\ pos' = [i \in 1..Len(pallets) |-> InitialPosition]
            /\ pc' = "loop"
            /\ cursor' = 1
            /\ finished' = TRUE
            /\ logBase' = Len(log)
            /\ occBase' = Cardinality(occupied)
    /\ result' = NoResult
    /\ UNCHANGED <<dbVars, genBase, capacity, tolerance, allocVars, pallets,
                   log, accepted>>

Visiting == pc = "loop" /\ cursor \in 1..Len(pallets)

\* a terminal pallet: continue
SkipTerminal ==
    /\ Visiting
    /\ IsTerminal(pos[cursor].stage)
    /\ cursor' = cursor + 1
    /\ UNCHANGED <<dbVars, result, genBase>>
    /\ UNCHANGED <<capacity, tolerance, allocVars, pallets, pos, pc, finished,
                   log, cmds, logBase, occBase, accepted>>

\* (mutant) the arrival is logged before the gate decides, as process_pallet
\* of warehouse.py does
InboundResultLogsArrival(p, q, tbl, tol) ==
    IF InlineReject(p.weight, tol)
    THEN [pos |-> [q EXCEPT !.stage = "manual"],
          log |-> insert_movement_log(
                      insert_movement_log(tbl, p, "Inbound", None),
                      p, "Manual Packing", None)]
    ELSE [pos |-> [q EXCEPT !.stage = "conveyor", !.index = 0],
          log |-> insert_movement_log(tbl, p, "Inbound OK", None)]

\* what the inbound branch leaves in pos and in the table
InboundResult(p, q, tbl, tol) ==
    IF InlineReject(p.weight, tol)
    THEN [pos |-> [q EXCEPT !.stage = "manual"],
          log |-> insert_movement_log(tbl, p, "Manual Packing", None)]
    ELSE [pos |-> [q EXCEPT !.stage = "conveyor", !.index = 0],
          log |-> insert_movement_log(tbl, p, "Inbound OK", None)]

InboundStep ==
    /\ Visiting
    /\ pos[cursor].stage = "inbound"
    /\ LET res == InboundResult(pallets[cursor], pos[cursor], log, tolerance)
       IN /\ pos' = [pos EXCEPT ![cursor] = res.pos]
          /\ log' = res.log
    /\ finished' = FALSE
    /\ cursor' = cursor + 1
    /\ UNCHANGED <<dbVars, result, genBase>>
    /\ UNCHANGED <<capacity, tolerance, allocVars, pallets, pc, cmds,
                   logBase, occBase, accepted>>

\* (mutant) the counter is never advanced
ConveyorResultStuck(p, q, tbl) ==
    IF q.index < CONVEYOR_SLOTS - 1
    THEN [pos |-> q, log |-> tbl]
    ELSE [pos |-> [q EXCEPT !.stage = "rgv", !.index = 0],
          log |-> insert_movement_log(tbl, p, "Conveyor OK", None)]

\* (mutant) the counter advances by two slots in one visit
ConveyorResultLeaps(p, q, tbl) ==
    IF q.index < CONVEYOR_SLOTS - 1
    THEN [pos |-> [q EXCEPT !.index = q.index + 2], log |-> tbl]
    ELSE [pos |-> [q EXCEPT !.stage = "rgv", !.index = 0],
          log |-> insert_movement_log(tbl, p, "Conveyor OK", None)]

\* (mutant) every advance of the counter is logged
ConveyorResultChatty(p, q, tbl) ==
    IF q.index < CONVEYOR_SLOTS - 1
    THEN [pos |-> [q EXCEPT !.index = q.index + 1],
          log |-> insert_movement_log(tbl, p, "Conveyor OK", None)]
    ELSE [pos |-> [q EXCEPT !.stage = "rgv", !.index = 0],
          log |-> insert_movement_log(tbl, p, "Conveyor OK", None)]

\* what the conveyor branch leaves in pos and in the table
ConveyorResult(p, q, tbl) ==
    IF q.index < CONVEYOR_SLOTS - 1
    THEN [pos |-> [q EXCEPT !.index = q.index + 1], log |-> tbl]
    ELSE [pos |-> [q EXCEPT !.stage = "rgv", !.index = 0],
          log |-> insert_movement_log(tbl, p, "Conveyor OK", None)]

ConveyorStep ==
    /\ Visiting
    /\ pos[cursor].stage = "conveyor"
    /\ LET res == ConveyorResult(pallets[cursor], pos[cursor], log)
       IN /\ pos' = [pos EXCEPT ![cursor] = res.pos]
          /\ log' = res.log
    /\ finished' = FALSE
    /\ cursor' = cursor + 1
    /\ UNCHANGED <<dbVars, result, genBase>>
    /\ UNCHANGED <<capacity, tolerance, allocVars, pallets, pc, cmds,
                   logBase, occBase, accepted>>

\* (mutant) a pallet that finds no slot is sent round again
StoreResultRequeue(p, q, tbl, loc) ==
    IF loc = None
    THEN [pos |-> [q EXCEPT !.stage = "conveyor", !.index = 0],
          log |-> insert_movement_log(tbl, p, "Manual (No Space)", None)]
    ELSE [pos |-> [q EXCEPT !.stage = "asrs", !.loc = loc],
          log |-> insert_movement_log(tbl, p, "Stored", FormatLocation(loc))]

\* what the rgv branch leaves in pos and in the table once the allocator
\* has answered loc
StoreResult(p, q, tbl, loc) ==
    IF loc = None
    THEN [pos |-> [q EXCEPT !.stage = "manual"],
          log |-> insert_movement_log(tbl, p, "Manual (No Space)", None)]
    ELSE [pos |-> [q EXCEPT !.stage = "asrs", !.loc = loc],
          log |-> insert_movement_log(tbl, p, "Stored", FormatLocation(loc))]

RgvStep ==
    /\ Visiting
    /\ pos[cursor].stage = "rgv"
    /\ IF pos[cursor].index < RGV_SLOTS - 1
       THEN /\ pos' = [pos EXCEPT ![cursor].index = @ + 1]
            /\ UNCHANGED <<allocVars, log>>
       ELSE /\ assign_location
            /\ LET res == StoreResult(pallets[cursor], pos[cursor], log,
                                      FirstFree(occupied, capacity))
               IN /\ pos' = [pos EXCEPT ![cursor] = res.pos]
                  /\ log' = res.log
    /\ finished' = FALSE
    /\ cursor' = cursor + 1
    /\ UNCHANGED <<dbVars, result, genBase>>
    /\ UNCHANGED <<capacity, tolerance, pallets, pc, cmds, logBase, occBase,
                   accepted>>

\* the end of the for loop and the next test of the while loop
EndTick ==
    /\ pc = "loop"
    /\ cursor = Len(pallets) + 1
    /\ IF finished
       THEN /\ pc' = "done"
            /\ UNCHANGED <<cursor, finished>>
       ELSE /\ finished' = TRUE
            /\ cursor' = 1
            /\ pc' = "loop"
    /\ UNCHANGED <<dbVars, result, genBase>>
    /\ UNCHANGED <<capacity, tolerance, allocVars, pallets, pos, log, cmds,
                   logBase, occBase, accepted>>

LoopStep == SkipTerminal \/ InboundStep \/ ConveyorStep \/ RgvStep \/ EndTick

Next ==
    \/ GeneratePallets
    \/ RunSimulation
    \/ SkipTerminal
    \/ InboundStep
    \/ ConveyorStep
    \/ RgvStep
    \/ EndTick

Spec == Init /\ [][Next]_vars

\* The tick loop is straight-line code with no cancellation: once started it
\* keeps taking steps while it has one to take.
LiveSpec == Spec /\ WF_vars(LoopStep)

----------------------------------------------------------------------------
\* The log store failing: insert_movement_log raises (sqlite3 error), no row
\* is written, nothing catches the exception and the script run ends with
\* it.  What the branch did before the call stays done.

InboundStepFails ==
    /\ Visiting
    /\ pos[cursor].stage = "inbound"
    /\ LET res == InboundResult(pallets[cursor], pos[cursor], log, tolerance)
       IN pos' = [pos EXCEPT ![cursor] = res.pos]
    /\ finished' = FALSE
    /\ pc' = "failed"
    /\ UNCHANGED <<dbVars, result, genBase>>
    /\ UNCHANGED <<capacity, tolerance, allocVars, pallets, cursor, log, cmds,
                   logBase, occBase, accepted>>

ConveyorStepFails ==
    /\ Visiting
    /\ pos[cursor].stage = "conveyor"
    /\ ~(pos[cursor].index < CONVEYOR_SLOTS - 1)
    /\ LET res == ConveyorResult(pallets[cursor], pos[cursor], log)
       IN pos' = [pos EXCEPT ![cursor] = res.pos]
    /\ finished' = FALSE
    /\ pc' = "failed"
    /\ UNCHANGED <<dbVars, result, genBase>>
    /\ UNCHANGED <<capacity, tolerance, allocVars, pallets, cursor, log, cmds,
                   logBase, occBase, accepted>>

RgvStepFails ==
    /\ Visiting
    /\ pos[cursor].stage = "rgv"
    /\ ~(pos[cursor].index < RGV_SLOTS - 1)
    /\ assign_location
    /\ LET res == StoreResult(pallets[cursor], pos[cursor], log,
                              FirstFree(occupied, capacity))
       IN pos' = [pos EXCEPT ![cursor] = res.pos]
    /\ finished' = FALSE
    /\ pc' = "failed"
    /\ UNCHANGED <<dbVars, result, genBase>>
    /\ UNCHANGED <<capacity, tolerance, pallets, cursor, log, cmds, logBase,
                   occBase, accepted>>

FailNext ==
    \/ GeneratePallets
    \/ RunSimulation
    \/ SkipTerminal
    \/ InboundStep
    \/ ConveyorStep
    \/ RgvStep
    \/ EndTick
    \/ InboundStepFails
    \/ ConveyorStepFails
    \/ RgvStepFails

FailSpec == Init /\ [][FailNext]_vars

----------------------------------------------------------------------------
\* Reading the log: the searches, the listing and the export.  Each is a
\* script run of its own, so the pallet_positions of an earlier run are gone.

Reverse(seq) == [i \in 1..Len(seq) |-> seq[Len(seq) + 1 - i]]

\* (mutant) ORDER BY id without DESC
query_rfid_ascending(tbl, rfid) == SelectSeq(tbl, LAMBDA r : r.rfid = rfid)

\* SELECT * FROM pallet_movements WHERE rfid = ? ORDER BY id DESC
query_rfid(tbl, rfid) == Reverse(SelectSeq(tbl, LAMBDA r : r.rfid = rfid))

\* SELECT * FROM pallet_movements WHERE pallet_id = ? ORDER BY id DESC
query_pallet_id(tbl, pid) ==
    Reverse(SelectSeq(tbl, LAMBDA r : r.pallet_id = pid))

\* SELECT * FROM pallet_movements ORDER BY id DESC LIMIT limit
query_all(tbl, limit) ==
    SubSeq(Reverse(tbl), 1, IF Len(tbl) < limit THEN Len(tbl) ELSE limit)

\* SELECT * FROM pallet_movements
query_log_all(tbl) == tbl

readFrame ==
    /\ pc \in {"idle", "done", "failed"}
    /\ cmds < MaxCmds
    /\ cmds' = cmds + 1
    /\ pc' = "idle"
    /\ pos' = << >>
    /\ UNCHANGED <<dbVars, genBase>>
    /\ UNCHANGED <<capacity, tolerance, allocVars, pallets, cursor, finished,
                   log, logBase, occBase, accepted>>

\* "Search" with an RFID typed in
SearchRfid ==
    /\ readFrame
    /\ \E x \in SearchRFIDs :
          result' = [kind |-> "rfid", arg |-> x, rows |-> query_rfid(log, x)]

\* "Search" with a pallet id picked from the session's list
SearchPalletId ==
    /\ readFrame
    /\ \E i \in 1..Len(pallets) :
          result' = [kind |-> "pallet_id", arg |-> pallets[i].pallet_id,
                     rows |-> query_pallet_id(log, pallets[i].pallet_id)]

\* "Show All Recent Movements"
ShowAllRecent ==
    /\ readFrame
    /\ result' = [kind |-> "all", arg |-> None,
                  rows |-> query_all(log, RECENT_LIMIT)]

\* "Download CSV": the dump read at the end of the script
ExportLog ==
    /\ readFrame
    /\ result' = [kind |-> "export", arg |-> None, rows |-> query_log_all(log)]

LogNext ==
    \/ GeneratePallets
    \/ RunSimulation
    \/ SkipTerminal
    \/ InboundStep
    \/ ConveyorStep
    \/ RgvStep
    \/ EndTick
    \/ SearchRfid
    \/ SearchPalletId
    \/ ShowAllRecent
    \/ ExportLog

LogSpec == Init /\ [][LogNext]_vars

----------------------------------------------------------------------------
\* The allocator alone: a fresh warehouse, assign_location called for one
\* new pallet after the other (at most once more than there are slots).

AllocInit ==
    /\ capacity \in [rows : 1..MaxDim, columns : 1..MaxDim, layers : 1..MaxDim]
    /\ tolerance = TOLERANCE * Scale
    /\ occupied = {}
    /\ pallets = << >>
    /\ pos = << >>
    /\ pc = "idle"
    /\ cursor = 0
    /\ finished = FALSE
    /\ log = << >>
    /\ cmds = 0
    /\ returned = << >>
    /\ lastRet = None
    /\ calls = 0
    /\ logBase = 0
    /\ occBase = 0
    /\ accepted = << >>
    /\ DbInit

\* assign_location(pallet): pallet.location is set on a hit
AssignCall ==
    /\ calls <= Slots(capacity)
    /\ assign_location
    /\ LET loc == FirstFree(occupied, capacity)
           p == Pallet(calls + 1, NOMINAL * Scale, None)
       IN pallets' = Append(pallets,
                        IF loc = None THEN p ELSE [p EXCEPT !.location = loc])
    /\ UNCHANGED <<dbVars, result, genBase>>
    /\ UNCHANGED <<capacity, tolerance, pos, pc, cursor, finished, log, cmds,
                   logBase, occBase, accepted>>

AllocNext == AssignCall

AllocSpec == AllocInit /\ [][AllocNext]_vars

----------------------------------------------------------------------------
\* The weight gate alone: one pallet of any weight at the head of a run,
\* under any tolerance; the inbound branch and check_weight are applied.

GateInit ==
    /\ capacity = [rows |-> ROWS, columns |-> COLS, layers |-> LAYERS]
    /\ tolerance \in GateTolerances
    /\ occupied = {}
    /\ \E w \in GateWeights : pallets = << Pallet(1, w, 10000) >>
    /\ pos = << InitialPosition >>
    /\ pc = "loop"
    /\ cursor = 1
    /\ finished = TRUE
    /\ log = << >>
    /\ cmds = 1
    /\ returned = << >>
    /\ lastRet = None
    /\ calls = 0
    /\ logBase = 0
    /\ occBase = 0
    /\ accepted = << >>
    /\ DbInit

\* warehouse.check_weight(pallet) on the pallet of the list
CheckWeightCall ==
    /\ Len(accepted) < MaxGateCalls
    /\ accepted' = Append(accepted, check_weight(pallets[1].weight, tolerance))
    /\ pallets' = [pallets EXCEPT
                     ![1].status = check_weight_status(pallets[1].weight, tolerance)]
    /\ UNCHANGED <<dbVars, result, genBase>>
    /\ UNCHANGED <<capacity, tolerance, allocVars, pos, pc, cursor, finished,
                   log, cmds, logBase, occBase>>

GateNext ==
    \/ InboundStep
    \/ CheckWeightCall

GateSpec == GateInit /\ [][GateNext]_vars

----------------------------------------------------------------------------
\* Concurrent script runs.  Every run of the script (one per session, each
\* in its own thread) executes the module's statements again: conn comes
\* from the st.cache_resource cache and is the same connection for all,
\* db_lock = threading.Lock() makes a new Lock object for this run.

\* the Lock object that db_lock names in run h
NewLock(h) == h

\* lines 27-28 of a run
ScriptStart(h) ==
    /\ hpc[h] = "off"
    /\ lockOf' = [lockOf EXCEPT ![h] = NewLock(h)]
    /\ hpc' = [hpc EXCEPT ![h] = "ready"]
    /\ UNCHANGED <<held, pending, result, genBase>>
    /\ UNCHANGED <<capacity, tolerance, allocVars, pallets, pos, pc, cursor,
                   finished, log, cmds, logBase, occBase, accepted>>

\* the rows run h has INSERTed, committed or not
InsertsOf(h) ==
    Cardinality({ k \in 1..Len(pending) : pending[k].owner = h })
    + Cardinality({ k \in 1..Len(log) : log[k].pallet_id = <<"P", h>> })

\* insert_movement_log: with db_lock (enter)
AcquireLock(h) ==
    /\ hpc[h] = "ready"
    /\ InsertsOf(h) < MaxInserts
    /\ lockOf[h] \notin held
    /\ held' = held \cup {lockOf[h]}
    /\ hpc' = [hpc EXCEPT ![h] = "locked"]
    /\ UNCHANGED <<lockOf, pending, result, genBase>>
    /\ UNCHANGED <<capacity, tolerance, allocVars, pallets, pos, pc, cursor,
                   finished, log, cmds, logBase, occBase, accepted>>

\* insert_movement_log: conn.execute(INSERT ...) opens or joins the
\* connection's transaction
ExecuteInsert(h) ==
    /\ hpc[h] = "locked"
    /\ LET all == [k \in 1..Len(pending) |-> pending[k].row]
           tbl == insert_movement_log(log \o all,
                      Pallet(h, NOMINAL * Scale, 10000), "Inbound OK", None)
       IN pending' = Append(pending, [owner |-> h, row |-> tbl[Len(tbl)]])
    /\ hpc' = [hpc EXCEPT ![h] = "inserted"]
    /\ UNCHANGED <<lockOf, held, result, genBase>>
    /\ UNCHANGED <<capacity, tolerance, allocVars, pallets, pos, pc, cursor,
                   finished, log, cmds, logBase, occBase, accepted>>

\* insert_movement_log: conn.commit() commits whatever the connection's
\* transaction holds
CommitInsert(h) ==
    /\ hpc[h] = "inserted"
    /\ log' = log \o [k \in 1..Len(pending) |-> pending[k].row]
    /\ pending' = << >>
    /\ hpc' = [hpc EXCEPT ![h] = "committed"]
    /\ UNCHANGED <<lockOf, held, result, genBase>>
    /\ UNCHANGED <<capacity, tolerance, allocVars, pallets, pos, pc, cursor,
                   finished, cmds, logBase, occBase, accepted>>

\* insert_movement_log: with db_lock (exit)
ReleaseLock(h) ==
    /\ hpc[h] = "committed"
    /\ held' = held \ {lockOf[h]}
    /\ hpc' = [hpc EXCEPT ![h] = "ready"]
    /\ UNCHANGED <<lockOf, pending, result, genBase>>
    /\ UNCHANGED <<capacity, tolerance, allocVars, pallets, pos, pc, cursor,
                   finished, log, cmds, logBase, occBase, accepted>>

LockNext ==
    \E h \in Handlers :
        \/ ScriptStart(h)
        \/ AcquireLock(h)
        \/ ExecuteInsert(h)
        \/ CommitInsert(h)
        \/ ReleaseLock(h)

LockSpec == Init /\ [][LockNext]_vars

----------------------------------------------------------------------------
\* Properties

Range(seq) == { seq[i] : i \in 1..Len(seq) }

NoDuplicates(seq) ==
    \A i, j \in 1..Len(seq) : i # j => seq[i] # seq[j]

\* C1: from an empty warehouse, rows*cols*layers calls of assign_location
\* return every coordinate of the grid exactly once (no coordinate twice,
\* none missing): up to that many calls every call returns a coordinate,
\* and the call after them returns None.  (AllocSpec)
C1_EveryCoordinateOnce ==
    LET n == Slots(capacity)
    IN /\ NoDuplicates(returned)
       /\ calls <= n => Len(returned) = calls
       /\ calls \in 1..n => lastRet # None /\ lastRet = returned[calls]
       /\ calls >= n => Len(returned) = n /\ Range(returned) = Grid(capacity)
       /\ calls > n => lastRet = None

C1_Witness ==
    /\ Slots(capacity) > 2
    /\ calls = Slots(capacity) + 1
    /\ lastRet = None
    /\ Range(returned) = Grid(capacity)

RowMajorBefore(a, b) ==
    \/ a[1] < b[1]
    \/ a[1] = b[1] /\ a[2] < b[2]
    \/ a[1] = b[1] /\ a[2] = b[2] /\ a[3] < b[3]

LayerMajorBefore(a, b) ==
    \/ a[3] < b[3]
    \/ a[3] = b[3] /\ a[1] < b[1]
    \/ a[3] = b[3] /\ a[1] = b[1] /\ a[2] < b[2]

\* C2 (as stated): successive successful calls of assign_location return
\* coordinates in layer-major, then row, then column order, so every slot
\* of a layer is handed out before any slot of the next layer.  (AllocSpec)
C2_LayerMajorOrder ==
    \A i, j \in 1..Len(returned) :
        i < j => LayerMajorBefore(returned[i], returned[j])

\* C2 (amended): successive successful calls of assign_location return
\* coordinates in row-major, then column, then layer order: the row index
\* is the outermost loop and the layer index the innermost, so every slot
\* of a row is handed out before any slot of the next row.  (AllocSpec)
C2_RowMajorOrder ==
    \A i, j \in 1..Len(returned) :
        i < j => RowMajorBefore(returned[i], returned[j])

C2_Witness ==
    /\ capacity.rows > 1 /\ capacity.columns > 1 /\ capacity.layers > 1
    /\ Len(returned) = Slots(capacity)
    /\ returned[2] = <<1, 1, 2>>

StoredRows == { k \in 1..Len(log) : log[k].stage = "Stored" }

\* C3: internal coordinates are 0-based and only the log text is 1-based:
\* every coordinate (r,c,l) returned by assign_location has 0 <= r < rows,
\* 0 <= c < cols, 0 <= l < layers, every 'Stored' record carries three
\* numbers in 1..rows, 1..cols, 1..layers, and the first pallet stored in
\* an empty warehouse gets (0,0,0) and is logged as Row 1, Col 1, Layer 1.
C3_ZeroBasedCoordinates ==
    /\ \A i \in 1..Len(returned) :
          /\ returned[i][1] \in 0..(capacity.rows - 1)
          /\ returned[i][2] \in 0..(capacity.columns - 1)
          /\ returned[i][3] \in 0..(capacity.layers - 1)
    /\ \A k \in StoredRows :
          /\ log[k].location[1] \in 1..capacity.rows
          /\ log[k].location[2] \in 1..capacity.columns
          /\ log[k].location[3] \in 1..capacity.layers
    /\ Len(returned) >= 1 => returned[1] = <<0, 0, 0>>
    /\ \A k \in StoredRows :
          (\A j \in StoredRows : k <= j) => log[k].location = <<1, 1, 1>>

\* C4: |occupied| <= rows*cols*layers and occupied holds only coordinates
\* of the grid; occupied only grows; a successful assign_location adds
\* exactly one new coordinate, a call that returns None adds nothing, and
\* no other step changes occupied; after N successful assignments on an
\* initially empty warehouse |occupied| = N.
C4_OccupancyState ==
    /\ Cardinality(occupied) <= Slots(capacity)
    /\ occupied \subseteq Grid(capacity)
    /\ Cardinality(occupied) = Len(returned)

C4_OccupancyStep ==
    /\ occupied \subseteq occupied'
    /\ calls' = calls => occupied' = occupied
    /\ (calls' # calls /\ lastRet' = None) => occupied' = occupied
    /\ (calls' # calls /\ lastRet' # None) =>
          /\ lastRet' \notin occupied
          /\ occupied' = occupied \cup {lastRet'}
          /\ Cardinality(occupied') = Cardinality(occupied) + 1

C4_Occupancy == []C4_OccupancyState /\ [][C4_OccupancyStep]_vars

C4_Witness ==
    /\ pc = "loop"
    /\ lastRet = None
    /\ calls > Len(returned)
    /\ Cardinality(occupied) = Slots(capacity)
    /\ Len(returned) >= 2

\* the gate as the specification states it: |w - 400| <= tol
WithinTolerance(w, tol) ==
    /\ w - NOMINAL * Scale <= tol
    /\ NOMINAL * Scale - w <= tol

\* C5: the inbound step applies the weight gate exactly: a pallet in stage
\* inbound moves to conveyor iff |w - 400| <= tol and to manual otherwise
\* (400-tol and 400+tol are accepted, anything further away is refused),
\* and the inline check of the driver and Warehouse.check_weight give the
\* same answer on every input.  (GateSpec)
C5_GateStep ==
    \A i \in 1..Len(pallets) :
        (pos[i].stage = "inbound" /\ pos'[i].stage # "inbound") =>
            pos'[i].stage = (IF WithinTolerance(pallets[i].weight, tolerance)
                             THEN "conveyor" ELSE "manual")

C5_GateState ==
    /\ accepted # << >> =>
          accepted[1] = WithinTolerance(pallets[1].weight, tolerance)
    /\ (accepted # << >> /\ pos[1].stage # "inbound") =>
          (accepted[1] <=> pos[1].stage = "conveyor")
    /\ pos[1].stage \in {"inbound", "conveyor", "manual"}

C5_WeightGate == []C5_GateState /\ [][C5_GateStep]_vars

C5_Witness ==
    /\ tolerance > 0
    /\ pallets[1].weight = NOMINAL * Scale - tolerance
    /\ pos[1].stage = "conveyor"
    /\ accepted = << TRUE >>

\* the stage labels of the rows the current run wrote for pallet i, in order
RunRecords(i) ==
    LET rows == SelectSeq(SubSeq(log, logBase + 1, Len(log)),
                          LAMBDA r : r.pallet_id = pallets[i].pallet_id)
    IN [k \in 1..Len(rows) |-> rows[k].stage]

InTolerance(i) == WithinTolerance(pallets[i].weight, tolerance)

\* C6: for any finite list of pallets and the fixed slot counts the tick
\* loop terminates: every pallet reaches asrs or manual, after which the
\* loop exits.  (LiveSpec)
C6_RunTerminates ==
    (pc = "loop") ~>
        (pc = "done" /\ \A i \in 1..Len(pallets) :
                            pos[i].stage \in {"asrs", "manual"})

C6_Witness ==
    /\ pc = "done"
    /\ Len(pallets) = 2
    /\ pos[1].stage = "asrs"
    /\ pos[2].stage = "manual"
    /\ InTolerance(2)

StageEdges ==
    { <<"inbound", "conveyor">>, <<"inbound", "manual">>,
      <<"conveyor", "rgv">>, <<"rgv", "asrs">>, <<"rgv", "manual">> }

\* C7: within a run a pallet's stage changes only along inbound->conveyor,
\* inbound->manual, conveyor->rgv, rgv->asrs, rgv->manual, and asrs and
\* manual are absorbing: no later tick of the run changes the stage, the
\* position counter or the stored coordinate of a pallet in asrs or manual.
C7_Step ==
    pc = "loop" =>
        /\ DOMAIN pos' = DOMAIN pos
        /\ \A i \in DOMAIN pos :
              /\ pos'[i].stage # pos[i].stage =>
                    <<pos[i].stage, pos'[i].stage>> \in StageEdges
              /\ pos[i].stage \in {"asrs", "manual"} => pos'[i] = pos[i]

C7_StageEdges == [][C7_Step]_vars

C7_Witness ==
    /\ pc = "loop"
    /\ Len(pallets) = 2
    /\ pos[1].stage = "manual"
    /\ pos[2].stage = "rgv"
    /\ cursor = 2

\* C8: an out-of-tolerance pallet is routed to manual on its first step:
\* processing it writes exactly one movement record, labelled 'Manual
\* Packing', no conveyor or rgv record, never calls the allocator for it
\* and leaves occupied unchanged.
C8_State ==
    \A i \in DOMAIN pos :
        ~InTolerance(i) =>
            /\ pos[i].stage \in {"inbound", "manual"}
            /\ pos[i].index = 0
            /\ pos[i].loc = None
            /\ RunRecords(i) = IF pos[i].stage = "inbound"
                               THEN << >> ELSE << "Manual Packing" >>

C8_Step ==
    (Visiting /\ ~InTolerance(cursor)) =>
        /\ calls' = calls
        /\ occupied' = occupied
        /\ pos[cursor].stage = "inbound" =>
              /\ pos'[cursor].stage = "manual"
              /\ Len(log') = Len(log) + 1
              /\ SubSeq(log', 1, Len(log)) = log
              /\ log'[Len(log')].stage = "Manual Packing"
              /\ log'[Len(log')].pallet_id = pallets[cursor].pallet_id
        /\ pos[cursor].stage # "inbound" => log' = log /\ pos' = pos

InToleranceUpTo(i) == Cardinality({ j \in 1..i : InTolerance(j) })

C10_State ==
    pc = "done" =>
        \A i \in 1..Len(pallets) :
            RunRecords(i) =
                IF pos[i].stage = "asrs"
                THEN << "Inbound OK", "Conveyor OK", "Stored" >>
                ELSE IF InTolerance(i)
                THEN << "Inbound OK", "Conveyor OK", "Manual (No Space)" >>
                ELSE << "Manual Packing" >>

C10_Step ==
    pc = "loop" =>
        LET moved == { i \in DOMAIN pos : pos'[i].stage # pos[i].stage }
        IN /\ Cardinality(moved) <= 1
           /\ Len(log') = Len(log) + Cardinality(moved)
           /\ SubSeq(log', 1, Len(log)) = log
           /\ \A i \in moved :
                 log'[Len(log')].pallet_id = pallets[i].pallet_id

C11_WritesExclusive ==
    /\ \A g, h \in Handlers :
          (hpc[g] \in {"locked", "inserted"} /\ hpc[h] \in {"locked", "inserted"})
              => g = h
    /\ \A h \in Handlers :
          hpc[h] = "inserted" =>
              \A k \in 1..Len(pending) : pending[k].owner = h

\* the label of the record a pallet's arrival in a stage is logged with
LabelsOf(stage) ==
    CASE stage = "conveyor" -> {"Inbound OK"}
      [] stage = "rgv" -> {"Conveyor OK"}
      [] stage = "asrs" -> {"Stored"}
      [] stage = "manual" -> {"Manual Packing", "Manual (No Space)"}
      [] OTHER -> {}

\* C12: every stage transition is recorded before it takes effect: when the
\* log insert of a transition fails the transition has not happened (stage
\* unchanged, no slot marked occupied), so in every reachable state, also
\* after a log failure, every slot the driver occupied has a 'Stored'
\* record and every pallet outside inbound has the record of its last
\* transition.  (FailSpec)
C12_RecordedBeforeEffect ==
    /\ \A i \in 1..Len(returned) :
          \E k \in StoredRows : log[k].location = FormatLocation(returned[i])
    /\ \A i \in DOMAIN pos :
          pos[i].stage # "inbound" =>
              /\ RunRecords(i) # << >>
              /\ RunRecords(i)[Len(RunRecords(i))] \in LabelsOf(pos[i].stage)

\* C13: the movement log is append-only: every operation (the inserts of a
\* run, the searches, the listing, the export, pallet generation) leaves
\* every row already in the table unchanged and present, and each inserted
\* row gets an id greater than the id of every row inserted before it.
\* (LogSpec)
C13_Step ==
    /\ Len(log') >= Len(log)
    /\ SubSeq(log', 1, Len(log)) = log
    /\ \A k \in (Len(log) + 1)..Len(log') :
          \A j \in 1..(k - 1) : log'[k].id > log'[j].id

C13_AppendOnly == [][C13_Step]_vars

C13_Witness ==
    /\ result.kind = "export"
    /\ Len(result.rows) >= 4
    /\ result.rows = log

\* what a search must return: all the rows that match, no others, each
\* once, a later row before an earlier one
MatchesNewestFirst(rows, matching) ==
    /\ Range(rows) = { log[k] : k \in matching }
    /\ Len(rows) = Cardinality(matching)
    /\ \A i, j \in 1..Len(rows) : i < j => rows[i].id > rows[j].id

\* C14: query_rfid(x) and query_pallet_id(x) return exactly the rows of the
\* log whose rfid (resp. pallet_id) equals x, all of them and no others,
\* most recent first; when no row matches, the result is empty.  (LogSpec)
C14_SearchResults ==
    /\ result.kind = "rfid" =>
          MatchesNewestFirst(result.rows,
              { k \in 1..Len(log) : log[k].rfid = result.arg })
    /\ result.kind = "pallet_id" =>
          MatchesNewestFirst(result.rows,
              { k \in 1..Len(log) : log[k].pallet_id = result.arg })

C14_Witness ==
    /\ result.kind = "rfid"
    /\ Len(result.rows) >= 2
    /\ Len(result.rows) < Len(log)

\* one sub-step of a pallet: a gate decision or a stage transition, or one
\* increment of its slot counter
OneSubStep(q, r) ==
    \/ /\ r.stage # q.stage
       /\ << q.stage, r.stage >> \in StageEdges
    \/ /\ r.stage = q.stage
       /\ r.index = q.index + 1
       /\ r.loc = q.loc

\* C15: in each tick the driver visits the pallets in list order, advances
\* every non-terminal pallet by exactly one sub-step and no terminal pallet
\* at all; no pallet is stepped twice or skipped within a tick, and the
\* loop exits only in a tick in which every pallet was already terminal.
C15_Step ==
    pc = "loop" =>
        IF cursor \in 1..Len(pallets)
        THEN /\ pc' = "loop"
             /\ cursor' = cursor + 1
             /\ \A i \in DOMAIN pos : i # cursor => pos'[i] = pos[i]
             /\ IF IsTerminal(pos[cursor].stage)
                THEN pos'[cursor] = pos[cursor] /\ finished' = finished
                ELSE OneSubStep(pos[cursor], pos'[cursor]) /\ ~finished'
        ELSE /\ pos' = pos
             /\ pc' = "done" =>
                    /\ finished
                    /\ \A i \in DOMAIN pos : IsTerminal(pos[i].stage)
             /\ pc' = "loop" => ~finished /\ cursor' = 1

C15_State ==
    /\ pc = "loop" => cursor \in 1..(Len(pallets) + 1)
    /\ (pc = "loop" /\ finished) =>
          \A i \in 1..(cursor - 1) : IsTerminal(pos[i].stage)

C15_TickDiscipline == []C15_State /\ [][C15_Step]_vars

C15_Witness ==
    /\ pc = "loop"
    /\ Len(pallets) = 2
    /\ cursor = 3
    /\ ~finished
    /\ pos[1].stage = "manual"
    /\ pos[2] = [stage |-> "rgv", index |-> 1, loc |-> None]

\* C16: pallet identities are unique: after any Generate Pallets the
\* pallets of the session list have pairwise distinct pallet_id values and
\* pairwise distinct rfid values, so the records carrying one pallet's rfid
\* are never records of another pallet of the list.
C16_UniqueIdentities ==
    \A i, j \in 1..Len(pallets) :
        i # j =>
            /\ pallets[i].pallet_id # pallets[j].pallet_id
            /\ pallets[i].rfid # pallets[j].rfid
            /\ \A k \in (genBase + 1)..Len(log) :
                  log[k].rfid = pallets[i].rfid =>
                      log[k].pallet_id # pallets[j].pallet_id

Statuses == {"Pending", "Accepted", "Rejected", "Stored"}

\* C17: a pallet's status is one of Pending, Accepted, Rejected, Stored and
\* its location is a coordinate triple exactly when it has been stored: a
\* pallet the driver has stored has status Stored and its location set to
\* the assigned triple, a rejected or in-transit pallet has no location.
C17_StatusAndLocation ==
    /\ \A i \in 1..Len(pallets) : pallets[i].status \in Statuses
    /\ \A i \in DOMAIN pos :
          IF pos[i].stage = "asrs"
          THEN /\ pallets[i].status = "Stored"
               /\ pallets[i].location = pos[i].loc
          ELSE pallets[i].location = None

\* C18 as stated: evaluating the weight gate leaves the pallet (status,
\* location, weight), the occupancy and the logs unchanged, and evaluating
\* it twice on the same weight and tolerance gives the same result.
\* (GateSpec)
C18_Repeatable == \A k \in 1..Len(accepted) : accepted[k] = accepted[1]

C18_PureStep ==
    accepted' # accepted =>
        /\ pallets' = pallets
        /\ occupied' = occupied
        /\ log' = log

C18_GatePure == []C18_Repeatable /\ [][C18_PureStep]_vars

\* C18, amended: the verdict of the weight gate depends on the weight and
\* the tolerance only, so evaluating it twice gives the same result, and it
\* leaves the pallet's weight and location, the occupancy and the logs
\* unchanged; the inline gate of the driver changes nothing of the pallet,
\* but Warehouse.check_weight writes its verdict to pallet.status
\* ('Accepted' or 'Rejected - Manual Packing').  (GateSpec)
C18_VerdictStep ==
    /\ accepted' # accepted =>
          /\ pallets' = [pallets EXCEPT ![1].status =
                            IF WithinTolerance(pallets[1].weight, tolerance)
                            THEN "Accepted"
                            ELSE "Rejected - Manual Packing"]
          /\ occupied' = occupied
          /\ log' = log
          /\ pos' = pos
    /\ pos' # pos => pallets' = pallets /\ occupied' = occupied

C18_GateWritesStatus == []C18_Repeatable /\ [][C18_VerdictStep]_vars

C18_Witness ==
    /\ Len(accepted) = 2
    /\ accepted[2] = FALSE
    /\ pallets[1].status = "Rejected - Manual Packing"
    /\ pallets[1].location = None
    /\ pos[1].stage = "manual"

AsrsPallets == { i \in DOMAIN pos : pos[i].stage = "asrs" }

\* C19: no slot is shared: over any number of runs on the session's
\* warehouse any two distinct pallets in stage asrs have distinct
\* coordinates, each such coordinate is in occupied, and the number of
\* pallets a run moves to asrs equals the growth of |occupied| in that run.
C19_NoSharedSlot ==
    /\ \A i, j \in AsrsPallets : i # j => pos[i].loc # pos[j].loc
    /\ \A i \in AsrsPallets : pos[i].loc \in occupied
    /\ pc \in {"loop", "done"} =>
          Cardinality(AsrsPallets) = Cardinality(occupied) - occBase

C19_Witness ==
    /\ pc = "done"
    /\ occBase >= 1
    /\ Cardinality(AsrsPallets) = 2

\* the 'Stored' rows written for pallet i since the list was generated
StoredSinceGenerated(i) ==
    { k \in (genBase + 1)..Len(log) :
        /\ log[k].pallet_id = pallets[i].pallet_id
        /\ log[k].stage = "Stored" }

\* C20: a pallet consumes at most one slot: over any sequence of Generate
\* Pallets and Run Simulation commands each pallet of the session list has
\* at most one 'Stored' record (one successful assign_location call), and
\* running the simulation again on an unchanged list occupies no further
\* slot.
C20_OneSlotPerPallet ==
    \A i \in 1..Len(pallets) : Cardinality(StoredSinceGenerated(i)) <= 1

====
